---- MODULE Spec2Model ----
(***************************************************************************)
(* Model of app.py: the Streamlit travel-agent script and the LangGraph    *)
(* agent it builds (call_tools_llm -> exists_action -> invoke_tools).      *)
(*                                                                         *)
(* Messages are records.  As in langchain, only an AIMessage has the       *)
(* attribute tool_calls and only a ToolMessage has tool_call_id, so        *)
(* hasattr(m, "tool_calls") is  "tool_calls" \in DOMAIN m.                 *)
(* A tool call is [id, name, args]; args is a function from the argument   *)
(* names present in the dict to their values.                              *)
(***************************************************************************)
EXTENDS Integers, Sequences, FiniteSets, TLC

VARIABLES
    session_state,     \* st.session_state without chat_history: key -> value
    chat_history,      \* st.session_state.chat_history
    form,              \* current values of the sidebar widgets
    button,            \* st.button("Generate Trip Plan") is true in the pending run
    user_input,        \* value st.chat_input returns in the pending run
    chat_input_shown,  \* the last script run rendered the chat input
    pc,                \* "idle" | "script" | "graph"
    messages,          \* AgentState["messages"] of the agent of this script run
    node,              \* next graph node: "call_tools_llm" | "invoke_tools" | "END"
    step,              \* graph steps executed in the current graph.invoke
    outcome,           \* what the last script run gave the caller
    events,            \* number of user interactions so far
    savers             \* by browser session: thread id -> messages in the
                       \* checkpointer of the agent of its current script run

\* the variables of one browser session and of its graph
session_vars == <<session_state, chat_history, form, button, user_input,
                  chat_input_shown, pc, messages, node, step, outcome, events>>

vars == <<session_vars, savers>>

(***************************************************************************)
(* Bounds of the model.                                                    *)
(***************************************************************************)
\* most tool calls the reasoning component requests in one graph.invoke
MaxCalls == 2
\* most user interactions (button clicks, chat submissions, widget changes)
MaxEvents == 2
\* graph steps one graph.invoke may execute before the graph library raises
\* GraphRecursionError (the library default is 25; app.py configures none)
recursion_limit == 4

(***************************************************************************)
(* Values.                                                                 *)
(***************************************************************************)
\* Python's None, as a value comparable with the strings it stands among
None == "<None>"

\* datetime.date.today()
today == <<2026, 11, 4>>

Pad2(n) == IF n < 10 THEN "0" \o ToString(n) ELSE ToString(n)

\* str(datetime.date): ISO format
str_date(d) == ToString(d[1]) \o "-" \o Pad2(d[2]) \o "-" \o Pad2(d[3])

\* str.strip(), on the strings of the model (none has whitespace at an end
\* except the blank ones)
strip(s) == IF s \in {"", " "} THEN "" ELSE s

\* str.lower(), on the strings of the model
lower(s) ==
    CASE s = "Low" -> "low"
      [] s = "Medium" -> "medium"
      [] s = "High" -> "high"
      [] s = "Paris" -> "paris"
      [] s = "Tel Aviv" -> "tel aviv"
      [] s = "Unknownville" -> "unknownville"
      [] OTHER -> s

\* the content of cities_iata.json: lowercase city name -> IATA code
cities_iata == [c \in {"paris", "tel aviv"} |->
                   IF c = "paris" THEN "CDG" ELSE "TLV"]

\* dict.get(k, default)
Get(d, k, default) == IF k \in DOMAIN d THEN d[k] ELSE default

\* d[k] = v
Put(d, k, v) == [x \in (DOMAIN d) \cup {k} |-> IF x = k THEN v ELSE d[x]]

\* the empty dict
EmptyDict == [k \in {} |-> None]

HumanMessage(c) == [type |-> "human", content |-> c]

AIMessage(c, tcs) == [type |-> "ai", content |-> c, tool_calls |-> tcs]

ToolMessage(id, n, c) ==
    [type |-> "tool", tool_call_id |-> id, name |-> n, content |-> c]

Last(s) == s[Len(s)]

\* TOOLS and Agent._tools: the registered tool names
TOOLS == {"hotels_finder", "flights_finder"}

\* AgentState.messages is Annotated[list, operator.add]
operator_add(old, new) == old \o new

\* memory = MemorySaver(): the messages a new checkpointer holds for a thread
MemorySaver == <<>>

\* the browser sessions that run the script, each with its own st.session_state
Sessions == {"s1", "s2"}

(***************************************************************************)
(* Argument resolution in invoke_tools (lines 151-192).                    *)
(***************************************************************************)
\* SetDefault without the test: the session value replaces a supplied one
SetDefault_overwrite(args, k, v) == Put(args, k, v)

\* if k not in args: args[k] = v
SetDefault(args, k, v) == IF k \notin DOMAIN args THEN Put(args, k, v) ELSE args

\* lines 163-170: hotel_class from the session budget
hotel_class_default(args, ss) ==
    IF "hotel_class" \notin DOMAIN args
    THEN LET budget == lower(Get(ss, "budget", "Medium"))
         IN  IF budget = "low" THEN Put(args, "hotel_class", "1,2")
             ELSE IF budget = "medium" THEN Put(args, "hotel_class", "3,4")
             ELSE IF budget = "high" THEN Put(args, "hotel_class", "5")
             ELSE args
    ELSE args

\* lines 171-173: sort_by from the session budget
sort_by_default(args, ss) ==
    LET budget == lower(Get(ss, "budget", "Medium"))
    IN  SetDefault(args, "sort_by", IF budget = "low" THEN "3" ELSE "8")

\* resolve_hotels that qualifies q with the session destination at every
\* pass instead of filling it when it is missing
resolve_hotels_qualify(args, ss) ==
    LET a1 == Put(args, "q", Get(args, "q", "") \o " " \o Get(ss, "destination", ""))
        a2 == SetDefault(a1, "check_in_date", str_date(Get(ss, "start_date", today)))
        a3 == SetDefault(a2, "check_out_date", str_date(Get(ss, "end_date", today)))
        a4 == SetDefault(a3, "adults", 2)
        a5 == hotel_class_default(a4, ss)
    IN  sort_by_default(a5, ss)

\* lines 155-173: the hotels_finder branch
resolve_hotels(args, ss) ==
    LET a1 == SetDefault(args, "q", Get(ss, "destination", ""))
        a2 == SetDefault(a1, "check_in_date", str_date(Get(ss, "start_date", today)))
        a3 == SetDefault(a2, "check_out_date", str_date(Get(ss, "end_date", today)))
        a4 == SetDefault(a3, "adults", 2)
        a5 == hotel_class_default(a4, ss)
    IN  sort_by_default(a5, ss)

\* resolve_flights with the city name itself as the code of a city the
\* airport map does not know
resolve_flights_guess(args, ss) ==
    LET a1 == SetDefault(args, "departure_airport",
                         Get(cities_iata, lower(Get(ss, "origin", "")),
                             lower(Get(ss, "origin", ""))))
        a2 == SetDefault(a1, "arrival_airport",
                         Get(cities_iata, lower(Get(ss, "destination", "")),
                             lower(Get(ss, "destination", ""))))
        a3 == SetDefault(a2, "outbound_date", str_date(Get(ss, "start_date", today)))
        a4 == SetDefault(a3, "return_date", str_date(Get(ss, "end_date", today)))
        a5 == SetDefault(a4, "adults", Get(ss, "adult", 1))
    IN  SetDefault(a5, "children", Get(ss, "children", 0))

\* lines 181-192: the flights_finder branch
resolve_flights(args, ss) ==
    LET a1 == SetDefault(args, "departure_airport",
                         Get(cities_iata, lower(Get(ss, "origin", "")), None))
        a2 == SetDefault(a1, "arrival_airport",
                         Get(cities_iata, lower(Get(ss, "destination", "")), None))
        a3 == SetDefault(a2, "outbound_date", str_date(Get(ss, "start_date", today)))
        a4 == SetDefault(a3, "return_date", str_date(Get(ss, "end_date", today)))
        a5 == SetDefault(a4, "adults", Get(ss, "adult", 1))
    IN  SetDefault(a5, "children", Get(ss, "children", 0))

\* the args dict of tool call t once invoke_tools has handled the call: the
\* dict is the one the assistant message holds, and it is filled in place
resolve(t, ss) ==
    IF t.name \notin TOOLS THEN t.args
    ELSE IF t.name = "hotels_finder" THEN resolve_hotels(t.args, ss)
    ELSE IF t.name = "flights_finder" THEN resolve_flights(t.args, ss)
    ELSE t.args

\* the dates the model uses, and the strings a date field parses
Dates == {<<2025, 7, 1>>, <<2025, 7, 2>>, <<2025, 7, 5>>}

DateStrings == {str_date(d) : d \in Dates \cup {today}}

\* HotelsInput(**args): the schema of hotel_tool
HotelsInput_ok(args) ==
    /\ {"q", "check_in_date", "check_out_date"} \subseteq DOMAIN args
    /\ args["check_in_date"] \in DateStrings
    /\ args["check_out_date"] \in DateStrings

\* FlightsInput(**args): the schema of flight_tool
FlightsInput_ok(args) ==
    /\ {"departure_airport", "arrival_airport", "outbound_date", "return_date"}
          \subseteq DOMAIN args
    /\ args["departure_airport"] # None
    /\ args["arrival_airport"] # None
    /\ args["outbound_date"] \in DateStrings
    /\ args["return_date"] \in DateStrings

\* f"Tool call failed: {e}"
failed(e) == "Tool call failed: " \o e

\* tool_result without the test of line 148: the adapter of an unregistered
\* name is looked up, and the KeyError becomes a failure string
tool_result_lookup(t, ss, adapter) ==
    IF t.name = "hotels_finder"
    THEN IF ~HotelsInput_ok(resolve(t, ss)) THEN failed("validation error")
         ELSE IF adapter = "raise" THEN failed("adapter error")
         ELSE "hotels in " \o resolve(t, ss)["q"]
    ELSE IF t.name = "flights_finder"
         THEN IF ~FlightsInput_ok(resolve(t, ss)) THEN failed("validation error")
              ELSE IF adapter = "raise" THEN failed("adapter error")
              ELSE "flights to " \o resolve(t, ss)["arrival_airport"]
    ELSE failed("'" \o t.name \o "'")

\* str(result) for tool call t (lines 148-207); adapter is what the tool's
\* invoke does if it is reached: "ok" (returns) or "raise"
tool_result(t, ss, adapter) ==
    IF t.name \notin TOOLS THEN "Invalid tool"
    ELSE IF t.name = "hotels_finder"
         THEN IF ~HotelsInput_ok(resolve(t, ss)) THEN failed("validation error")
              ELSE IF adapter = "raise" THEN failed("adapter error")
              ELSE "hotels in " \o resolve(t, ss)["q"]
    ELSE IF t.name = "flights_finder"
         THEN IF ~FlightsInput_ok(resolve(t, ss)) THEN failed("validation error")
              ELSE IF adapter = "raise" THEN failed("adapter error")
              ELSE "flights to " \o resolve(t, ss)["arrival_airport"]
    ELSE "Unsupported tool"

\* tool_messages with no message for a call of an unregistered tool
tool_messages_skip_invalid(tcs, ss, adapters) ==
    SelectSeq([i \in 1..Len(tcs) |->
                  ToolMessage(tcs[i].id, tcs[i].name,
                              tool_result(tcs[i], ss, adapters[i]))],
              LAMBDA m : m.content # "Invalid tool")

\* tool_messages with the try around the loop: the first failure ends it
tool_messages_abort(tcs, ss, adapters) ==
    LET all == [i \in 1..Len(tcs) |->
                   ToolMessage(tcs[i].id, tcs[i].name,
                               tool_result(tcs[i], ss, adapters[i]))]
        bad == {i \in 1..Len(tcs) :
                   all[i].content \in {failed("validation error"),
                                       failed("adapter error")}}
    IN  IF bad = {} THEN all
        ELSE SubSeq(all, 1, CHOOSE i \in bad : \A j \in bad : i <= j)

\* the list results that invoke_tools returns for the tool calls tcs
tool_messages(tcs, ss, adapters) ==
    [i \in 1..Len(tcs) |->
        ToolMessage(tcs[i].id, tcs[i].name, tool_result(tcs[i], ss, adapters[i]))]

\* the messages of the state as invoke_tools leaves them: args = t.get("args")
\* is the dict inside the last message, so the writes args[k] = v show there
messages_after_resolution(msgs, ss) ==
    LET tool_calls == Last(msgs).tool_calls
    IN  [msgs EXCEPT ![Len(msgs)].tool_calls =
            [i \in 1..Len(tool_calls) |->
                [tool_calls[i] EXCEPT !.args = resolve(tool_calls[i], ss)]]]

\* exists_action looking at every message of the state
exists_action_any(msgs) ==
    IF \E i \in 1..Len(msgs) :
          "tool_calls" \in DOMAIN msgs[i] /\ Len(msgs[i].tool_calls) > 0
    THEN "more_tools"
    ELSE "end"

\* exists_action with the test len(result.tool_calls) > 1
exists_action_gt1(msgs) ==
    LET result == Last(msgs)
    IN  IF "tool_calls" \in DOMAIN result /\ Len(result.tool_calls) > 1
        THEN "more_tools"
        ELSE "end"

\* exists_action (lines 133-137)
exists_action(msgs) ==
    LET result == Last(msgs)
    IN  IF "tool_calls" \in DOMAIN result /\ Len(result.tool_calls) > 0
        THEN "more_tools"
        ELSE "end"

(***************************************************************************)
(* Inputs: what the user enters and what the reasoning component and the   *)
(* tools answer.                                                           *)
(***************************************************************************)
\* the widgets' values before the user touches them (lines 216-224)
DefaultForm ==
    [origin |-> "", destination |-> "", start_date |-> today, end_date |-> today,
     budget |-> "Low", interests |-> "", avoid |-> "", adult |-> 1, children |-> 0]

\* the values a user enters in the sidebar
FormValues ==
    { [origin |-> "Tel Aviv", destination |-> "Paris",
       start_date |-> <<2025, 7, 2>>, end_date |-> <<2025, 7, 5>>,
       budget |-> "Low", interests |-> "food", avoid |-> "", adult |-> 2,
       children |-> 1],
      [origin |-> "Unknownville", destination |-> "Paris",
       start_date |-> <<2025, 7, 2>>, end_date |-> <<2025, 7, 5>>,
       budget |-> "High", interests |-> "", avoid |-> "", adult |-> 1,
       children |-> 0] }

\* the texts a user submits in the chat input
ChatTexts == {"Make it cheaper"}

\* the f-string user_message (lines 226-237)
user_message(f) ==
    "Create a personalized itinerary. origin: " \o f.origin
      \o " Destination: " \o f.destination
      \o " Start Date: " \o str_date(f.start_date)
      \o " End Date: " \o str_date(f.end_date)
      \o " Budget: " \o f.budget
      \o " Interests: " \o f.interests
      \o " Avoid: " \o f.avoid
      \o " children: " \o ToString(f.children)
      \o " adult: " \o ToString(f.adult)

\* the args dicts the reasoning component sends with a hotels_finder call
HotelArgs ==
    { [check_in_date |-> "2025-07-01"],
      [q |-> "Rome", check_in_date |-> "2025-07-05", check_out_date |-> "soon",
       adults |-> 4, hotel_class |-> "2,3", sort_by |-> "13"] }

\* the args dicts the reasoning component sends with a flights_finder call
FlightArgs ==
    { EmptyDict,
      [departure_airport |-> "JFK", arrival_airport |-> "FCO",
       outbound_date |-> "2025-07-05", return_date |-> "2025-07-05",
       adults |-> 3, children |-> 2] }

\* name and args of the tool calls the reasoning component may request
CallSpecs ==
    {[name |-> "hotels_finder", args |-> a] : a \in HotelArgs}
      \cup {[name |-> "flights_finder", args |-> a] : a \in FlightArgs}
      \cup {[name |-> "restaurants_finder", args |-> EmptyDict]}

\* the tool_calls of an assistant message made at graph step k out of specs:
\* ids are unique within the message
tool_calls_of(specs, k) ==
    [i \in 1..Len(specs) |->
        [id |-> "call_" \o ToString(k) \o "_" \o ToString(i),
         name |-> specs[i].name, args |-> specs[i].args]]

\* the number of tool calls requested in msgs
RECURSIVE calls_requested(_)
calls_requested(msgs) ==
    IF msgs = <<>> THEN 0
    ELSE Len(Get(msgs[1], "tool_calls", <<>>)) + calls_requested(Tail(msgs))

\* the calls the reasoning component may put in one assistant message: one
\* call or two
CallLists ==
    {<<a>> : a \in CallSpecs} \cup {<<a, b>> : a, b \in CallSpecs}

\* the assistant messages self._tools_llm.invoke may return at graph step k
\* when it may still request n tool calls
LLMResponses(k, n) ==
    {AIMessage(c, <<>>) : c \in {"Here is your itinerary", ""}}
      \cup {AIMessage("", tool_calls_of(specs, k)) :
               specs \in {l \in CallLists : Len(l) <= n}}

(***************************************************************************)
(* The script (lines 211-272).                                             *)
(***************************************************************************)
\* line 250: the messages of chat_history whose content is not blank
RECURSIVE valid_messages_of(_)
valid_messages_of(ch) ==
    IF ch = <<>> THEN <<>>
    ELSE IF strip(Get(ch[1], "content", "")) # ""
         THEN <<ch[1]>> \o valid_messages_of(Tail(ch))
         ELSE valid_messages_of(Tail(ch))

\* line 270: if user_input and user_input.strip()
chat_submitted(ui) == ui # None /\ ui # "" /\ strip(ui) # ""

\* lines 269-272: chat_history after the chat input block
chat_input_block(ch, ui) ==
    IF chat_submitted(ui) THEN Append(ch, HumanMessage(ui)) ELSE ch

Init ==
    /\ session_state = EmptyDict
    /\ chat_history = <<>>
    /\ form = DefaultForm
    /\ button = FALSE
    /\ user_input = None
    /\ chat_input_shown = FALSE
    /\ pc = "idle"
    /\ messages = <<>>
    /\ node = "call_tools_llm"
    /\ step = 0
    /\ outcome = "none"
    /\ events = 0
    /\ savers = [s \in Sessions |-> EmptyDict]

\* line 211, agent = Agent(), in the script run a user interaction starts:
\* the graph and the checkpointer of the run before are gone
NewAgent ==
    /\ messages' = MemorySaver
    /\ node' = "call_tools_llm"
    /\ step' = 0

\* the user fills the sidebar and presses "Generate Trip Plan"
ClickGenerate(f) ==
    /\ pc = "idle"
    /\ events < MaxEvents
    /\ form' = f
    /\ button' = TRUE
    /\ user_input' = None
    /\ pc' = "script"
    /\ events' = events + 1
    /\ NewAgent
    /\ UNCHANGED <<session_state, chat_history, chat_input_shown, outcome>>
    /\ UNCHANGED savers

\* the user changes a sidebar widget without pressing the button
ChangeWidget(f) ==
    /\ pc = "idle"
    /\ events < MaxEvents
    /\ f # form
    /\ form' = f
    /\ button' = FALSE
    /\ user_input' = None
    /\ pc' = "script"
    /\ events' = events + 1
    /\ NewAgent
    /\ UNCHANGED <<session_state, chat_history, chat_input_shown, outcome>>
    /\ UNCHANGED savers

\* the user submits text in the chat input
SubmitChat(text) ==
    /\ pc = "idle"
    /\ chat_input_shown
    /\ events < MaxEvents
    /\ button' = FALSE
    /\ user_input' = text
    /\ pc' = "script"
    /\ events' = events + 1
    /\ NewAgent
    /\ UNCHANGED <<session_state, chat_history, form, chat_input_shown, outcome>>
    /\ UNCHANGED savers

\* lines 225-245: the button is pressed in this run
SidebarSubmit ==
    /\ pc = "script"
    /\ button
    /\ session_state' =
          [k \in {"user_prompt", "origin", "destination", "start_date",
                  "end_date", "adult"} |->
              CASE k = "user_prompt" -> user_message(form)
                [] k = "origin" -> form.origin
                [] k = "destination" -> form.destination
                [] k = "start_date" -> form.start_date
                [] k = "end_date" -> form.end_date
                [] k = "adult" -> form.adult]
    /\ chat_history' = <<HumanMessage(user_message(form))>>
    /\ button' = FALSE
    /\ user_input' = None
    /\ pc' = "script"
    /\ UNCHANGED <<form, chat_input_shown, messages, node, step, outcome, events>>
    /\ UNCHANGED savers

\* line 248 is false: nothing below it runs
NoPrompt ==
    /\ pc = "script"
    /\ ~button
    /\ "user_prompt" \notin DOMAIN session_state
    /\ pc' = "idle"
    /\ outcome' = "none"
    /\ chat_input_shown' = FALSE
    /\ UNCHANGED <<session_state, chat_history, form, button, user_input,
                   messages, node, step, events>>
    /\ UNCHANGED savers

\* lines 211 and 248-255: a new Agent is built, and graph.invoke starts on the
\* messages of chat_history; lines 258-272 if there is none
RunAgent ==
    /\ pc = "script"
    /\ ~button
    /\ "user_prompt" \in DOMAIN session_state
    /\ LET valid_messages == valid_messages_of(chat_history)
       IN  IF valid_messages # <<>>
           THEN /\ messages' = operator_add(MemorySaver, valid_messages)
                /\ node' = "call_tools_llm"
                /\ step' = 0
                /\ pc' = "graph"
                /\ UNCHANGED <<chat_history, user_input, chat_input_shown, outcome>>
           ELSE /\ outcome' = "warning"
                /\ chat_history' = chat_input_block(chat_history, user_input)
                /\ chat_input_shown' = TRUE
                /\ pc' = IF chat_submitted(user_input) THEN "script" ELSE "idle"
                /\ user_input' = None
                /\ UNCHANGED <<messages, node, step>>
    /\ UNCHANGED <<session_state, form, button, events>>
    /\ UNCHANGED savers

(***************************************************************************)
(* The graph (lines 119-208).                                              *)
(***************************************************************************)
\* call_tools_llm with an unconditional edge to invoke_tools
call_tools_llm_noroute(message) ==
    /\ pc = "graph"
    /\ node = "call_tools_llm"
    /\ step < recursion_limit
    /\ messages' = operator_add(messages, <<message>>)
    /\ node' = "invoke_tools"
    /\ step' = step + 1
    /\ UNCHANGED <<session_state, chat_history, form, button, user_input,
                   chat_input_shown, pc, outcome, events>>
    /\ UNCHANGED savers

\* call_tools_llm with an unconditional edge to END
call_tools_llm_always_end(message) ==
    /\ pc = "graph"
    /\ node = "call_tools_llm"
    /\ step < recursion_limit
    /\ messages' = operator_add(messages, <<message>>)
    /\ node' = "END"
    /\ step' = step + 1
    /\ UNCHANGED <<session_state, chat_history, form, button, user_input,
                   chat_input_shown, pc, outcome, events>>
    /\ UNCHANGED savers

\* call_tools_llm returns message, the reducer appends it, and the conditional
\* edge exists_action chooses the next node
call_tools_llm(message) ==
    /\ pc = "graph"
    /\ node = "call_tools_llm"
    /\ step < recursion_limit
    /\ messages' = operator_add(messages, <<message>>)
    /\ node' = IF exists_action(messages') = "more_tools" THEN "invoke_tools"
               ELSE "END"
    /\ step' = step + 1
    /\ UNCHANGED <<session_state, chat_history, form, button, user_input,
                   chat_input_shown, pc, outcome, events>>
    /\ UNCHANGED savers

\* call_tools_llm_raises leaving a partial assistant message in the state
call_tools_llm_raises_partial ==
    /\ pc = "graph"
    /\ node = "call_tools_llm"
    /\ step < recursion_limit
    /\ messages' = operator_add(messages, <<AIMessage("", <<>>)>>)
    /\ pc' = "idle"
    /\ outcome' = "raised"
    /\ chat_input_shown' = FALSE
    /\ user_input' = None
    /\ UNCHANGED <<session_state, chat_history, form, button, node, step, events>>
    /\ UNCHANGED savers

\* self._tools_llm.invoke raises: nothing catches it, in the graph or in the
\* script, and the script run ends with the exception
call_tools_llm_raises ==
    /\ pc = "graph"
    /\ node = "call_tools_llm"
    /\ step < recursion_limit
    /\ pc' = "idle"
    /\ outcome' = "raised"
    /\ chat_input_shown' = FALSE
    /\ user_input' = None
    /\ UNCHANGED <<session_state, chat_history, form, button, messages, node,
                   step, events>>
    /\ UNCHANGED savers

\* invoke_tools handles every tool call of the last message; adapters[i] is
\* what the tool of call i does if it is reached
invoke_tools ==
    /\ pc = "graph"
    /\ node = "invoke_tools"
    /\ step < recursion_limit
    /\ LET tool_calls == Last(messages).tool_calls
       IN  \E adapters \in [1..Len(tool_calls) -> {"ok", "raise"}] :
              messages' =
                 operator_add(messages_after_resolution(messages, session_state),
                              tool_messages(tool_calls, session_state, adapters))
    /\ node' = "call_tools_llm"
    /\ step' = step + 1
    /\ UNCHANGED <<session_state, chat_history, form, button, user_input,
                   chat_input_shown, pc, outcome, events>>
    /\ UNCHANGED savers

\* the graph library stops a run that needs more steps than its limit
GraphRecursionError ==
    /\ pc = "graph"
    /\ node # "END"
    /\ step >= recursion_limit
    /\ pc' = "idle"
    /\ outcome' = "raised"
    /\ chat_input_shown' = FALSE
    /\ user_input' = None
    /\ UNCHANGED <<session_state, chat_history, form, button, messages, node,
                   step, events>>
    /\ UNCHANGED savers

\* Return with response = events["messages"][0]
Return_first ==
    /\ pc = "graph"
    /\ node = "END"
    /\ LET response == messages[1]
       IN  chat_history' =
              chat_input_block(Append(chat_history, response), user_input)
    /\ outcome' = "answer"
    /\ chat_input_shown' = TRUE
    /\ pc' = IF chat_submitted(user_input) THEN "script" ELSE "idle"
    /\ user_input' = None
    /\ UNCHANGED <<session_state, form, button, messages, node, step, events>>
    /\ UNCHANGED savers

\* lines 256-272: graph.invoke returns, the last message is appended to
\* chat_history, the chat is rendered and the chat input is read
Return ==
    /\ pc = "graph"
    /\ node = "END"
    /\ LET response == Last(messages)
       IN  chat_history' =
              chat_input_block(Append(chat_history, response), user_input)
    /\ outcome' = "answer"
    /\ chat_input_shown' = TRUE
    /\ pc' = IF chat_submitted(user_input) THEN "script" ELSE "idle"
    /\ user_input' = None
    /\ UNCHANGED <<session_state, form, button, messages, node, step, events>>
    /\ UNCHANGED savers

Next ==
    \/ \E f \in FormValues : ClickGenerate(f)
    \/ \E f \in FormValues : ChangeWidget(f)
    \/ \E text \in ChatTexts : SubmitChat(text)
    \/ SidebarSubmit
    \/ NoPrompt
    \/ RunAgent
    \/ \E message \in LLMResponses(step, MaxCalls - calls_requested(messages)) :
          call_tools_llm(message)
    \/ call_tools_llm_raises
    \/ invoke_tools
    \/ GraphRecursionError
    \/ Return

Spec == Init /\ [][Next]_vars

(***************************************************************************)
(* The argument resolver on its own: invoke_tools applied to one tool call *)
(* of any shape under any session context, and applied again when the      *)
(* reasoning component repeats the call with the args it now finds in the  *)
(* conversation.                                                           *)
(***************************************************************************)
\* every argument of a hotels_finder call, with a value
HotelFull ==
    [q |-> "Rome", check_in_date |-> "2025-07-01", check_out_date |-> "2025-07-01",
     adults |-> 4, hotel_class |-> "2,3", sort_by |-> "13"]

\* every argument of a flights_finder call, with a value
FlightFull ==
    [departure_airport |-> "JFK", arrival_airport |-> "FCO",
     outbound_date |-> "2025-07-01", return_date |-> "2025-07-01",
     adults |-> 3, children |-> 2]

\* dict d with the keys of ks only
Restrict(d, ks) == [k \in ks |-> d[k]]

\* a tool call of each tool with each subset of its arguments supplied
ResolveCalls ==
    {[name |-> "hotels_finder", args |-> Restrict(HotelFull, ks)] :
        ks \in SUBSET DOMAIN HotelFull}
      \cup {[name |-> "flights_finder", args |-> Restrict(FlightFull, ks)] :
               ks \in SUBSET DOMAIN FlightFull}
      \cup {[name |-> "restaurants_finder", args |-> EmptyDict]}

\* the values st.session_state.get may find under "budget"
Budgets == {"Low", "Medium", "High", "Luxury"}

\* the session contexts the resolver reads: every key is read with
\* .get(key, default), so a key may be set or not
SessionContexts ==
    LET trips == {[origin |-> o, destination |-> d,
                   start_date |-> <<2025, 7, 2>>, end_date |-> <<2025, 7, 5>>,
                   adult |-> 2] :
                     o \in {"Tel Aviv", "Unknownville"},
                     d \in {"Paris", "Unknownville"}}
        with_budget == trips \cup {Put(t, "budget", b) : t \in trips, b \in Budgets}
    IN  {EmptyDict} \cup with_budget
          \cup {Put(t, "children", 1) : t \in with_budget}

\* the state after a decision that requested one tool call
InitResolve ==
    /\ session_state \in SessionContexts
    /\ chat_history = <<HumanMessage("Plan a trip")>>
    /\ form = DefaultForm
    /\ button = FALSE
    /\ user_input = None
    /\ chat_input_shown = FALSE
    /\ pc = "graph"
    /\ messages \in {<<HumanMessage("Plan a trip"),
                       AIMessage("", tool_calls_of(<<c>>, 0))>> :
                        c \in ResolveCalls}
    /\ node = "invoke_tools"
    /\ step = 1
    /\ outcome = "none"
    /\ events = 1
    /\ savers = [s \in Sessions |-> EmptyDict]

\* the assistant message that requests again, at graph step k, the calls of
\* the last assistant message of msgs with the args they hold now
repeated_request(msgs, k) ==
    LET last_ai == CHOOSE i \in 1..Len(msgs) :
                      /\ msgs[i].type = "ai"
                      /\ \A j \in (i + 1)..Len(msgs) : msgs[j].type # "ai"
    IN  AIMessage("", tool_calls_of(msgs[last_ai].tool_calls, k))

NextResolve ==
    \/ invoke_tools
    \/ /\ Last(messages).type = "tool"
       /\ call_tools_llm(repeated_request(messages, step))

SpecResolve == InitResolve /\ [][NextResolve]_vars

(***************************************************************************)
(* Several browser sessions: every session runs the script on its own      *)
(* st.session_state, and every script run builds its own Agent (line 211). *)
(* The graphs are reduced to the messages they append.                     *)
(***************************************************************************)
\* config = {"configurable": {"thread_id": "travel_agent_session"}}
thread_id == "travel_agent_session"

\* the user message a script run of session s gives graph.invoke
session_input(s) == HumanMessage("Plan a trip for " \o s)

\* the messages the nodes of the graph of session s append
SessionMessages(s) ==
    {AIMessage("Itinerary for " \o s, <<>>),
     ToolMessage("call_" \o s, "hotels_finder", "hotels for " \o s)}

\* Agent_memory with one Agent kept for all script runs and sessions
Agent_memory_cached(svs, s) ==
    IF \E t \in Sessions : svs[t] # EmptyDict
    THEN svs[CHOOSE t \in Sessions : svs[t] # EmptyDict]
    ELSE EmptyDict

\* the checkpointer of the Agent that a script run of session s builds:
\* memory = MemorySaver() in Agent.__init__, a new and empty one at every run
Agent_memory(svs, s) == EmptyDict

\* lines 248-255 in a script run of session s: graph.invoke on the input,
\* with the state kept under thread_id in the checkpointer of the run's agent
session_invoke(s) ==
    /\ savers' =
          [savers EXCEPT ![s] =
              LET memory == Agent_memory(savers, s)
              IN  Put(memory, thread_id,
                      operator_add(Get(memory, thread_id, MemorySaver),
                                   <<session_input(s)>>))]
    /\ UNCHANGED session_vars

\* a node of the graph of session s returns {"messages": [m]}
session_append(s, m) ==
    /\ thread_id \in DOMAIN savers[s]
    /\ Len(savers[s][thread_id]) <= recursion_limit
    /\ savers' = [savers EXCEPT ![s][thread_id] = operator_add(@, <<m>>)]
    /\ UNCHANGED session_vars

NextSessions ==
    \/ \E s \in Sessions : session_invoke(s)
    \/ \E s \in Sessions : \E m \in SessionMessages(s) : session_append(s, m)

SpecSessions == Init /\ [][NextSessions]_vars

(***************************************************************************)
(* Properties.                                                             *)
(***************************************************************************)
\* a step of graph.invoke that executes the decision node
DecisionStep == pc = "graph" /\ node = "call_tools_llm" /\ step' = step + 1

\* a step of graph.invoke that executes the tool invocation node
InvokeStep == pc = "graph" /\ node = "invoke_tools" /\ step' = step + 1

\* the strings a failed tool call leaves as its result
Failures == {failed("validation error"), failed("adapter error")}

\* the messages the current graph.invoke has appended to its input
run_messages ==
    SubSeq(messages, Len(valid_messages_of(chat_history)) + 1, Len(messages))

\* C1: a round of invoke_tools on an assistant message with tool calls
\* c1..cn appends exactly n messages, all of them tool messages, and the
\* i-th of them has tool_call_id = ci.id, whatever the calls are and
\* whether they fail or succeed.
C1_OneResultPerCall ==
    [][InvokeStep =>
          LET tcs == Last(messages).tool_calls
              base == Len(messages)
          IN  /\ Len(tcs) >= 1
              /\ Len(messages') = base + Len(tcs)
              /\ \A i \in 1..Len(tcs) :
                    /\ messages'[base + i].type = "tool"
                    /\ messages'[base + i].tool_call_id = tcs[i].id]_vars

\* C1 witness: a round of two calls has ended, both calls failed (one is
\* not a registered tool), and the two results carry the two ids in order.
C1_Witness ==
    /\ pc = "graph" /\ node = "call_tools_llm" /\ step = 2
    /\ LET n == Len(messages)
       IN  /\ n >= 4
           /\ messages[n - 2].type = "ai"
           /\ Len(messages[n - 2].tool_calls) = 2
           /\ messages[n - 1].type = "tool" /\ messages[n].type = "tool"
           /\ messages[n - 1].tool_call_id = messages[n - 2].tool_calls[1].id
           /\ messages[n].tool_call_id = messages[n - 2].tool_calls[2].id
           /\ messages[n - 1].content = "Invalid tool"
           /\ messages[n].content \in Failures

\* C2: in a round of invoke_tools no failure ends the round: a registered
\* call whose resolved arguments fail validation gets the failure string with
\* the error detail, every call of the round gets its own result (a failure
\* string, the invalid-tool marker or the tool's output), and the next node
\* is the decision node, inside the same graph.invoke.
C2_FailureIsolated ==
    [][(pc = "graph" /\ node = "invoke_tools" /\ step < recursion_limit) =>
          LET tcs == Last(messages).tool_calls
              base == Len(messages)
          IN  /\ Len(messages') >= base + Len(tcs)
              /\ \A i \in 1..Len(tcs) :
                    LET r == messages'[base + i]
                        args == messages'[base].tool_calls[i].args
                    IN  /\ r.name = tcs[i].name
                        /\ tcs[i].name \notin TOOLS => r.content = "Invalid tool"
                        /\ (tcs[i].name = "hotels_finder" /\ ~HotelsInput_ok(args))
                              => r.content = failed("validation error")
                        /\ (tcs[i].name = "flights_finder" /\ ~FlightsInput_ok(args))
                              => r.content = failed("validation error")
                        /\ (tcs[i].name = "hotels_finder" /\ HotelsInput_ok(args))
                              => r.content \in {failed("adapter error"),
                                                "hotels in " \o args["q"]}
                        /\ (tcs[i].name = "flights_finder" /\ FlightsInput_ok(args))
                              => r.content \in {failed("adapter error"),
                                   "flights to " \o args["arrival_airport"]}
              /\ pc' = "graph"
              /\ node' = "call_tools_llm"
              /\ outcome' = outcome]_vars

\* C2 witness: a round of two calls where the adapter of the first raised
\* and the second succeeded; both results are in the state and the decision
\* node is next.
C2_Witness ==
    /\ pc = "graph" /\ node = "call_tools_llm" /\ step = 2
    /\ LET n == Len(messages)
       IN  /\ n >= 4
           /\ messages[n - 2].type = "ai"
           /\ Len(messages[n - 2].tool_calls) = 2
           /\ messages[n - 1].type = "tool" /\ messages[n].type = "tool"
           /\ messages[n - 1].content = failed("adapter error")
           /\ messages[n].content \notin Failures \cup {"Invalid tool"}

\* C3: exists_action returns "more_tools" exactly when the last message of
\* the state is an assistant message with a non-empty tool_calls, and "end"
\* otherwise; the result is that of the last message alone.
C3_Routing ==
    messages # <<>> =>
        /\ exists_action(messages) \in {"more_tools", "end"}
        /\ (exists_action(messages) = "more_tools")
              <=> (Last(messages).type = "ai" /\ Last(messages).tool_calls # <<>>)
        /\ exists_action(messages) = exists_action(<<Last(messages)>>)

\* C3 witness: the last message is an assistant message without tool calls
\* and an earlier assistant message has tool calls; routing says "end".
C3_Witness ==
    /\ pc = "graph" /\ node = "END"
    /\ exists_action(messages) = "end"
    /\ \E i \in 1..Len(messages) :
          messages[i].type = "ai" /\ messages[i].tool_calls # <<>>

\* C4: a graph.invoke starts at call_tools_llm (DECIDING), and inside it the
\* node changes only from call_tools_llm to invoke_tools (INVOKING) when
\* exists_action says "more_tools", from call_tools_llm to END (DONE) when it
\* says "end", and from invoke_tools to call_tools_llm; every step of
\* invoke_tools goes to call_tools_llm and none leaves END.
C4_StateMachine ==
    [][/\ (pc # "graph" /\ pc' = "graph") => node' = "call_tools_llm"
       /\ (pc = "graph" /\ node' # node) =>
             \/ /\ node = "call_tools_llm" /\ node' = "invoke_tools"
                /\ exists_action(messages') = "more_tools"
             \/ /\ node = "call_tools_llm" /\ node' = "END"
                /\ exists_action(messages') = "end"
             \/ node = "invoke_tools" /\ node' = "call_tools_llm"
       /\ DecisionStep => node' # node
       /\ InvokeStep => node' = "call_tools_llm"
       /\ (pc = "graph" /\ node = "END") => (node' = "END" /\ step' = step)]_vars

\* C4 witness: a run that went DECIDING, INVOKING, DECIDING, DONE.
C4_Witness ==
    /\ pc = "graph" /\ node = "END" /\ step = 3
    /\ Last(messages).type = "ai"
    /\ messages[Len(messages) - 1].type = "tool"

\* C5: every step of the decision node and of the tool invocation node leaves
\* the messages it found as a prefix of the messages after it, each with its
\* tool_calls and their args as they were; so the length does not decrease.
C5_AppendOnly ==
    [][(DecisionStep \/ InvokeStep) =>
          /\ Len(messages') >= Len(messages)
          /\ SubSeq(messages', 1, Len(messages)) = messages]_vars

\* C6: when graph.invoke starts on a follow-up message of the user, its
\* state is the state the previous graph.invoke ended with, followed by
\* that follow-up message.
C6_ReentryAppendsFollowUp ==
    [][(/\ pc = "script" /\ pc' = "graph"
        /\ Len(chat_history) > 1
        /\ Last(chat_history).type = "human") =>
          /\ node' = "call_tools_llm"
          /\ messages' = Append(messages, Last(chat_history))]_vars

\* every decision of the current graph.invoke requested tools, as far as
\* the run went
all_decisions_request_tools ==
    /\ run_messages # <<>>
    /\ \A i \in 1..Len(run_messages) :
          run_messages[i].type = "ai" => run_messages[i].tool_calls # <<>>

\* C7 as stated: a run in which every decision requested tools, and which
\* has used up its steps, is at DONE and gave the caller a partial answer.
C7_CapReturnsPartialAnswer ==
    (pc = "idle" /\ step >= recursion_limit /\ all_decisions_request_tools)
        => (node = "END" /\ outcome = "partial")

\* C7 amended: while every decision of a run has requested tools the run is
\* not at DONE, and a run that has used up the steps the graph library
\* allows ends with the library's exception: the state is not at DONE and
\* chat_history gets no message.
C7_NoCapInApp ==
    [][/\ (pc' = "graph" /\ all_decisions_request_tools') => node' # "END"
       /\ (pc = "graph" /\ node # "END" /\ step >= recursion_limit) =>
             /\ pc' = "idle"
             /\ outcome' = "raised"
             /\ node' = node
             /\ chat_history' = chat_history]_vars

\* C7 witness: every decision of the run requested tools and the run ended
\* with the exception of the step limit.
C7_Witness ==
    /\ pc = "idle" /\ outcome = "raised"
    /\ step >= recursion_limit
    /\ node # "END"
    /\ all_decisions_request_tools

\* C8: when the reasoning component cannot be reached at a decision step,
\* the messages of the state after the failed step are those before it, and
\* chat_history, from which a retry starts, is unchanged too.
C8_FailedDecisionLeavesState ==
    [][(/\ pc = "graph" /\ node = "call_tools_llm" /\ step < recursion_limit
        /\ pc' # "graph") =>
          /\ messages' = messages
          /\ chat_history' = chat_history
          /\ session_state' = session_state]_vars

\* C8 witness: the second decision of a run failed, after a round of tools.
C8_Witness ==
    /\ pc = "idle" /\ outcome = "raised"
    /\ node = "call_tools_llm" /\ step = 2
    /\ Last(messages).type = "tool"

\* C9 as stated: no run gives the caller a raw fault.
C9_NeverRawFault == outcome # "raised"

\* C9 amended: a graph.invoke ends for the caller in one of two ways: at
\* DONE with the last message of the state appended to chat_history as the
\* answer, or, not at DONE, with an exception nothing catches and no message
\* appended to chat_history.
C9_AnswerOrException ==
    [][(pc = "graph" /\ pc' # "graph") =>
          \/ /\ node = "END"
             /\ outcome' = "answer"
             /\ Len(chat_history') > Len(chat_history)
             /\ SubSeq(chat_history', 1, Len(chat_history) + 1)
                   = Append(chat_history, Last(messages))
          \/ /\ node # "END"
             /\ outcome' = "raised"
             /\ chat_history' = chat_history]_vars

\* C9 witness: the first decision of a run failed and the caller got the
\* exception.
C9_Witness ==
    /\ pc = "idle" /\ outcome = "raised"
    /\ node = "call_tools_llm" /\ step = 0
    /\ Last(messages).type = "human"

\* C10: after a round of invoke_tools, the args of every call of a
\* registered tool hold, under every argument name the reasoning component
\* supplied, the value it supplied.
C10_SuppliedArgumentWins ==
    [][InvokeStep =>
          LET tcs == Last(messages).tool_calls
              base == Len(messages)
          IN  \A i \in 1..Len(tcs) :
                 LET args == messages'[base].tool_calls[i].args
                 IN  \A k \in DOMAIN tcs[i].args :
                        k \in DOMAIN args /\ args[k] = tcs[i].args[k]]_vars

\* C10 witness: a hotel call that supplied q = "Rome" and a flight call that
\* supplied adults = 3 were resolved in a session whose destination is Paris,
\* and still hold q = "Rome" and adults = 3.
C10_Witness ==
    /\ pc = "graph" /\ node = "call_tools_llm" /\ step = 2
    /\ session_state["destination"] = "Paris"
    /\ Len(messages) >= 4
    /\ messages[Len(messages) - 2].type = "ai"
    /\ LET tcs == messages[Len(messages) - 2].tool_calls
       IN  /\ Len(tcs) = 2
           /\ tcs[1].name = "hotels_finder"
           /\ "q" \in DOMAIN tcs[1].args /\ tcs[1].args["q"] = "Rome"
           /\ tcs[2].name = "flights_finder"
           /\ "adults" \in DOMAIN tcs[2].args /\ tcs[2].args["adults"] = 3
           /\ session_state["adult"] # 3

C12_LowBudgetParisHotel ==
    [][InvokeStep =>
          LET tcs == Last(messages).tool_calls
          IN  \A i \in 1..Len(tcs) :
                 (/\ \E f \in FormValues :
                        /\ f.destination = "Paris" /\ f.budget = "Low"
                        /\ Get(session_state, "user_prompt", "") = user_message(f)
                  /\ tcs[i].name = "hotels_finder"
                  /\ DOMAIN tcs[i].args = {"check_in_date"})
                    => LET args == messages'[Len(messages)].tool_calls[i].args
                       IN  /\ Get(args, "hotel_class", None) = "1,2"
                           /\ Get(args, "sort_by", None) = "3"
                           /\ Get(args, "q", None) = "Paris"]_vars

\* C13: once the trip form has been submitted, st.session_state holds the
\* seven preferences the user entered, with the values entered: origin,
\* destination, start date, end date, budget tier, adult count and children
\* count; and a flights_finder call that omits adults or children is
\* resolved with the counts the user entered.
C13_SevenPreferencesStored ==
    [][\A f \in FormValues :
          Get(session_state, "user_prompt", "") = user_message(f)
             => /\ {"origin", "destination", "start_date", "end_date", "budget",
                    "adult", "children"} \subseteq DOMAIN session_state
                /\ session_state["origin"] = f.origin
                /\ session_state["destination"] = f.destination
                /\ session_state["start_date"] = f.start_date
                /\ session_state["end_date"] = f.end_date
                /\ session_state["budget"] = f.budget
                /\ session_state["adult"] = f.adult
                /\ session_state["children"] = f.children
                /\ InvokeStep =>
                      LET tcs == Last(messages).tool_calls
                      IN  \A i \in 1..Len(tcs) :
                             (/\ tcs[i].name = "flights_finder"
                              /\ {"adults", "children"} \cap DOMAIN tcs[i].args = {})
                                => LET args == messages'[Len(messages)].tool_calls[i].args
                                   IN  /\ Get(args, "adults", None) = f.adult
                                       /\ Get(args, "children", None) = f.children]_vars

\* the airport arguments of a flights_finder call and the session key each is
\* looked up from (lines 181-184)
AirportKeys == {<<"departure_airport", "origin">>, <<"arrival_airport", "destination">>}

\* the flights_finder calls of tcs that omit an airport whose session city is
\* not a key of the airport map, as pairs <<call index, airport argument>>
unmapped_airports(tcs, ss) ==
    {<<i, p[1]>> : <<i, p>> \in
        {x \in (1..Len(tcs)) \X AirportKeys :
            /\ tcs[x[1]].name = "flights_finder"
            /\ x[2][1] \notin DOMAIN tcs[x[1]].args
            /\ lower(Get(ss, x[2][2], "")) \notin DOMAIN cities_iata}}

\* C14 as claimed: for a flights_finder call that omits departure_airport
\* (or arrival_airport) when the session origin (or destination) is not a
\* key of the airport map, the airport argument is absent from the resolved
\* args, the call's result is a failure tool message and the next node is
\* the decision node.
C14_UnknownCityLeftAbsent ==
    [][InvokeStep =>
          LET tcs == Last(messages).tool_calls
          IN  \A x \in unmapped_airports(tcs, session_state) :
                 /\ x[2] \notin DOMAIN messages'[Len(messages)].tool_calls[x[1]].args
                 /\ messages'[Len(messages) + x[1]].content = failed("validation error")
                 /\ node' = "call_tools_llm"]_vars

\* C14: for a flights_finder call that omits departure_airport (or
\* arrival_airport) when the session origin (or destination) is not a key of
\* the airport map, the resolved args hold the airport argument with the
\* value None (no code is guessed), validation rejects the args, the call's
\* result is the failure tool message of a validation error, and the next
\* node is the decision node, in the same graph.invoke.
C14_UnknownCityStoresNone ==
    [][InvokeStep =>
          LET tcs == Last(messages).tool_calls
          IN  \A x \in unmapped_airports(tcs, session_state) :
                 LET args == messages'[Len(messages)].tool_calls[x[1]].args
                 IN  /\ x[2] \in DOMAIN args
                     /\ args[x[2]] = None
                     /\ ~FlightsInput_ok(args)
                     /\ messages'[Len(messages) + x[1]].type = "tool"
                     /\ messages'[Len(messages) + x[1]].content =
                           failed("validation error")
                     /\ node' = "call_tools_llm"
                     /\ pc' = "graph"]_vars

\* C14 witness: a flights_finder call that gave neither airport has been
\* handled in a session whose origin is not in the airport map and whose
\* destination is: departure_airport holds None, arrival_airport holds the
\* code, the result is the validation failure and the decision node is next.
C14_Witness ==
    /\ pc = "graph" /\ node = "call_tools_llm" /\ step = 2
    /\ Get(session_state, "origin", "") = "Unknownville"
    /\ Get(session_state, "destination", "") = "Paris"
    /\ Len(messages) = 3
    /\ messages[2].type = "ai"
    /\ messages[2].tool_calls[1].name = "flights_finder"
    /\ messages[2].tool_calls[1].args["departure_airport"] = None
    /\ messages[2].tool_calls[1].args["arrival_airport"] = "CDG"
    /\ messages[3].content = failed("validation error")

\* C15: a tool call whose name is not a registered tool gets the fixed
\* result "Invalid tool" under its own id and name; its args are not
\* resolved (they stay as requested), the result does not depend on any
\* adapter, nothing is raised (the round ends at the decision node of the
\* same graph.invoke), and every other call of the round is handled as
\* usual: it gets its own result, which is a tool output or a failure string.
C15_InvalidToolMarker ==
    [][InvokeStep =>
          LET tcs == Last(messages).tool_calls
              base == Len(messages)
          IN  \A i \in 1..Len(tcs) :
                 tcs[i].name \notin TOOLS
                    => /\ messages'[base + i] =
                             ToolMessage(tcs[i].id, tcs[i].name, "Invalid tool")
                       /\ messages'[base].tool_calls[i].args = tcs[i].args
                       /\ pc' = "graph" /\ node' = "call_tools_llm"
                       /\ Len(messages') = base + Len(tcs)
                       /\ \A j \in 1..Len(tcs) :
                             tcs[j].name \in TOOLS
                                => /\ messages'[base + j].tool_call_id = tcs[j].id
                                   /\ messages'[base + j].content # "Invalid tool"
                                   /\ "adults" \in DOMAIN messages'[base].tool_calls[j].args]_vars

\* C15 witness: a round of two calls has ended; the first call named
\* restaurants_finder, which is not registered, and has the marker as its
\* result and its args as requested; the second, a hotels_finder call, was
\* resolved and has the tool's output.
C15_Witness ==
    /\ pc = "graph" /\ node = "call_tools_llm" /\ step = 2
    /\ Len(messages) = 4
    /\ messages[2].type = "ai"
    /\ Len(messages[2].tool_calls) = 2
    /\ messages[2].tool_calls[1].name = "restaurants_finder"
    /\ messages[2].tool_calls[1].args = EmptyDict
    /\ messages[3] = ToolMessage(messages[2].tool_calls[1].id, "restaurants_finder",
                                 "Invalid tool")
    /\ messages[2].tool_calls[2].name = "hotels_finder"
    /\ messages[4].content = "hotels in Paris"

\* the messages that belong to session s: its input and what its graph appends
messages_of_session(s) == {session_input(s)} \cup SessionMessages(s)

\* C16 as claimed: every session runs the loop under a session key of its
\* own, and no message of one session is in the conversation state of another.
C16_OwnKeyPerSession ==
    \A s, t \in Sessions :
       s # t =>
          /\ DOMAIN savers[s] \cap DOMAIN savers[t] = {}
          /\ \A k \in DOMAIN savers[t] : \A i \in 1..Len(savers[t][k]) :
                savers[t][k][i] \notin messages_of_session(s)

\* C16: every session runs the loop under the same key, the constant
\* "travel_agent_session", but in the checkpointer of its own script run's
\* agent: the conversation state of a session starts with that session's
\* input and holds messages of that session only, so no message appended in
\* one session is ever in the conversation state of another.
C16_SessionsShareNoState ==
    \A s \in Sessions :
       /\ DOMAIN savers[s] \subseteq {thread_id}
       /\ \A k \in DOMAIN savers[s] :
             /\ Len(savers[s][k]) >= 1
             /\ savers[s][k][1] = session_input(s)
             /\ \A i \in 1..Len(savers[s][k]) :
                   /\ savers[s][k][i] \in messages_of_session(s)
                   /\ \A t \in Sessions \ {s} :
                         savers[s][k][i] \notin messages_of_session(t)

\* C16 witness: two sessions have both run the loop under the same key, and
\* the graph of each has appended a tool result and an answer to its state.
C16_Witness ==
    /\ DOMAIN savers["s1"] = {thread_id}
    /\ DOMAIN savers["s2"] = {thread_id}
    /\ \A s \in Sessions :
          /\ Len(savers[s][thread_id]) = 3
          /\ savers[s][thread_id][2].type = "tool"
          /\ savers[s][thread_id][3] = AIMessage("Itinerary for " \o s, <<>>)

\* C17: argument resolution is idempotent: when the calls of an assistant
\* message carry the args that an earlier round of invoke_tools resolved,
\* resolving them again changes nothing, for both tools, every subset of
\* supplied arguments and every session context.
C17_ResolutionIdempotent ==
    [][(/\ InvokeStep
        /\ Len(messages) = 4
        /\ messages[2].type = "ai"
        /\ \A i \in 1..Len(Last(messages).tool_calls) :
              /\ Last(messages).tool_calls[i].name = messages[2].tool_calls[i].name
              /\ Last(messages).tool_calls[i].args = messages[2].tool_calls[i].args)
          => LET tcs == Last(messages).tool_calls
             IN  /\ messages'[4].tool_calls = tcs
                 /\ \A i \in 1..Len(tcs) :
                       resolve([tcs[i] EXCEPT !.args = resolve(tcs[i], session_state)],
                               session_state) = tcs[i].args]_vars

\* C17 witness: a hotels_finder call resolved in a low-budget session for
\* Paris was requested again with its resolved args (q and hotel_class came
\* from the session) and resolved a second time: the second pass left the
\* args as the first did.
C17_Witness ==
    /\ pc = "graph" /\ node = "call_tools_llm" /\ step = 4
    /\ Len(messages) = 5
    /\ messages[2].type = "ai" /\ messages[4].type = "ai"
    /\ messages[4].tool_calls[1].name = "hotels_finder"
    /\ messages[4].tool_calls[1].args = messages[2].tool_calls[1].args
    /\ Get(messages[4].tool_calls[1].args, "q", None) = "Paris"
    /\ Get(messages[4].tool_calls[1].args, "hotel_class", None) = "1,2"
    /\ Get(messages[4].tool_calls[1].args, "sort_by", None) = "3"

\* C18: when graph.invoke returns at END, the last message of the state,
\* which is what the caller gets and appends to chat_history, is an assistant
\* message with no tool calls that the decision node appended in this run
\* (it is not part of the input of the run): never a tool message, a user
\* message or a request for tools.
C18_FinalAnswerIsAssistantText ==
    [][(pc = "graph" /\ node = "END" /\ pc' # "graph") =>
          LET answer == chat_history'[Len(chat_history) + 1]
          IN  /\ answer = Last(messages)
              /\ answer.type = "ai"
              /\ answer.tool_calls = <<>>
              /\ Len(run_messages) >= 1
              /\ Last(run_messages) = answer
              /\ outcome' = "answer"]_vars

\* C18 witness: a run that went through a round of tools has returned its
\* answer: the last message of chat_history is the last message of the state,
\* an assistant message without tool calls that follows a tool message.
C18_Witness ==
    /\ pc = "idle" /\ outcome = "answer" /\ node = "END" /\ step = 3
    /\ Len(messages) >= 4
    /\ messages[Len(messages) - 1].type = "tool"
    /\ Last(messages) = AIMessage("Here is your itinerary", <<>>)
    /\ Last(chat_history) = Last(messages)

\* C19: the loop runs once per user message: in chat_history every
\* assistant message comes right after a user message, and a script run
\* that carries no new user message (nothing was submitted in this run, and
\* chat_history does not end with a user message still to be answered) does
\* not start graph.invoke and leaves chat_history as it is.
C19_OneRunPerUserMessage ==
    [][/\ \A i \in 1..Len(chat_history') :
             chat_history'[i].type = "ai"
                => i > 1 /\ chat_history'[i - 1].type = "human"
       /\ (/\ pc = "script"
           /\ ~button
           /\ ~chat_submitted(user_input)
           /\ (chat_history = <<>> \/ Last(chat_history).type # "human"))
             => pc' # "graph" /\ chat_history' = chat_history]_vars

====
